---- MODULE Spec2Model ----
(***************************************************************************)
(* backerror: a provenance-capturing error wrapper (LocatedError), the     *)
(* parser/normalizer of the runtime's stack dump (StackTrace) and the      *)
(* #[backerror] attribute macro that rewrites thiserror definitions.       *)
(*                                                                         *)
(* Text is a sequence of tokens (short strings); a Rust Option is the      *)
(* empty sequence (None) or a one-element sequence (Some); offsets are     *)
(* 0-based token offsets, as the byte offsets of the source are.           *)
(***************************************************************************)
EXTENDS Integers, Sequences, FiniteSets, TLC

VARIABLES
    pc,         \* position of the modelled run
    item,       \* macro input: the definition under #[backerror]
    expanded,   \* macro output: [item, impls]
    err,        \* the error value at the top of the propagation
    hops,       \* history: one entry per boundary crossed, innermost first
    feature,    \* cargo feature of the build: "none", "backtrace", "force_backtrace"
    windows,    \* cfg(windows) of the build
    dump,       \* a std::backtrace::Backtrace handed to StackTrace::parse
    trace       \* the Option<StackTrace> obtained from it

vars == <<pc, item, expanded, err, hops, feature, windows, dump, trace>>

(***************************************************************************)
(* Bounds                                                                  *)
(***************************************************************************)
MaxDepth == 3          \* boundaries crossed by one error
MaxFields == 3         \* fields (unit variants counted as one) of a definition
MaxSymbols == 3        \* symbols of one captured backtrace
MaxParts == 4          \* components of a file path
MaxLine == 9           \* largest line number of a symbol

(***************************************************************************)
(* str: find, rfind, slices                                                *)
(***************************************************************************)
None == <<>>
Some(x) == <<x>>

\* &s[a..b] with 0-based offsets
Slice(s, a, b) == SubSeq(s, a + 1, b)

StartsAt(s, pat, i) == 
    /\ i + Len(pat) <= Len(s)
    /\ Slice(s, i, i + Len(pat)) = pat

\* str::find: offset of the first match
find(s, pat) ==
    LET hits == {i \in 0..Len(s) : StartsAt(s, pat, i)}
    IN IF hits = {} THEN None
       ELSE Some(CHOOSE i \in hits : \A j \in hits : i <= j)

\* str::rfind: offset of the last match
rfind(s, pat) ==
    LET hits == {i \in 0..Len(s) : StartsAt(s, pat, i)}
    IN IF hits = {} THEN None
       ELSE Some(CHOOSE i \in hits : \A j \in hits : i >= j)

RECURSIVE Concat(_)
Concat(ss) == IF ss = <<>> THEN <<>> ELSE Head(ss) \o Concat(Tail(ss))

Reverse(s) == [i \in 1..Len(s) |-> s[Len(s) + 1 - i]]

(***************************************************************************)
(* backerror-macros: the definitions the macro reads (syn's Item)          *)
(***************************************************************************)
\* syn::Meta inside an attribute's parentheses; a string literal is no Meta
MetaPath(segs) == [kind |-> "path", segs |-> segs]
MetaLit(text) == [kind |-> "lit", segs |-> text]

\* #[path(args)]
Attr(path, args) == [path |-> path, args |-> args]

Field(attrs, ty) == [attrs |-> attrs, ty |-> ty]

\* shape: "unnamed" (tuple), "named" (braces) or "unit"
Variant(name, attrs, shape, fields) ==
    [name |-> name, attrs |-> attrs, shape |-> shape, fields |-> fields]

\* kind: "enum", "struct" or any other item; a struct's fields are variants[1]
Item(kind, ident, attrs, variants) ==
    [kind |-> kind, ident |-> ident, attrs |-> attrs, variants |-> variants]

\* a type, as the tokens of its text
LocatedTy(orig_ty) == <<"backerror::LocatedError", "<">> \o orig_ty \o <<">">>

\* syn::parse_str::<Path>: a reference, tuple or slice type is no path
parse_str_Path(ty) ==
    IF ty # <<>> /\ ty[1] \notin {"&", "(", "["} THEN Some(ty) ELSE None

\* substring test on the words the derive paths of the model are made of
str_contains(seg, w) == seg = w \/ <<seg, w>> \in {<<"MyError", "Error">>}

\* attr.parse_args_with(Punctuated::<Meta, Token![,]>::parse_terminated)
parse_args_with(attr) ==
    IF \A i \in 1..Len(attr.args) : attr.args[i].kind # "lit"
    THEN Some(attr.args) ELSE None

\* check `#[derive(Error)]`
check_derive_thiserror_always(attrs) == TRUE

check_derive_thiserror(attrs) ==
    \E a \in 1..Len(attrs) :
        /\ attrs[a].path = "derive"
        /\ parse_args_with(attrs[a]) # None
        /\ \E m \in 1..Len(attrs[a].args) :
              LET path == attrs[a].args[m].segs
              IN /\ attrs[a].args[m].kind = "path"
                 /\ \/ path = <<"Error">>
                    \/ /\ \E k \in 1..Len(path) : str_contains(path[k], "thiserror")
                       /\ \E k \in 1..Len(path) : str_contains(path[k], "Error")

\* check `#[error(transparent)]`
check_transparent_struct(attrs) ==
    \E a \in 1..Len(attrs) :
        /\ attrs[a].path = "error"
        /\ parse_args_with(attrs[a]) # None
        /\ \E m \in 1..Len(attrs[a].args) :
              /\ attrs[a].args[m].kind = "path"
              /\ attrs[a].args[m].segs = <<"transparent">>

\* check `#[from]`
check_attr_from(attrs) == \E a \in 1..Len(attrs) : attrs[a].path = "from"

\* the loop of enhance_fields over fs.unnamed, fields i..Len in order
RECURSIVE enhance_unnamed(_, _, _)
enhance_unnamed(fs, i, errors) ==
    IF i > Len(fs) THEN [fields |-> fs, errors |-> errors]
    ELSE IF check_attr_from(fs[i].attrs)
         THEN enhance_unnamed([fs EXCEPT ![i].ty = LocatedTy(fs[i].ty)], i + 1,
                              Append(errors, fs[i].ty))
         ELSE enhance_unnamed(fs, i + 1, errors)

\* enhance fields from `#[from] T` to `#[from] backerror::LocatedError<T>`
enhance_fields(variant, errors) ==
    IF variant.shape = "unnamed"
    THEN LET r == enhance_unnamed(variant.fields, 1, errors)
         IN [variant |-> [variant EXCEPT !.fields = r.fields], errors |-> r.errors]
    ELSE [variant |-> variant, errors |-> errors]

\* the glue generated without #[track_caller]
FromImplNoTrack(ident, from_ty) ==
    [from_ty |-> from_ty, for_ty |-> ident, track_caller |-> FALSE]

\* the generated `impl From<from_ty> for ident`, #[track_caller]
FromImpl(ident, from_ty) ==
    [from_ty |-> from_ty, for_ty |-> ident, track_caller |-> TRUE]

\* Err is None, Ok(impls) is Some(impls)
generate_from_impl(ident, error_types) ==
    IF error_types = <<>> THEN None
    ELSE IF \E i \in 1..Len(error_types) : parse_str_Path(error_types[i]) = None
         THEN None
         ELSE Some([i \in 1..Len(error_types) |-> FromImpl(ident, error_types[i])])

\* the macro's output: the tokens of the item, then those of the impls
Output(it, impls) == [item |-> it, impls |-> impls]

\* the loop of backerror_enum over the variants, in order
RECURSIVE enhance_variants(_, _, _)
enhance_variants(vs, i, errors) ==
    IF i > Len(vs) THEN [variants |-> vs, errors |-> errors]
    ELSE LET r == enhance_fields(vs[i], errors)
         IN enhance_variants([vs EXCEPT ![i] = r.variant], i + 1, r.errors)

backerror_enum(item_enum, input) ==
    IF ~check_derive_thiserror(item_enum.attrs) THEN Output(input, <<>>)
    ELSE LET r == enhance_variants(item_enum.variants, 1, <<>>)
             impls == generate_from_impl(item_enum.ident, r.errors)
         IN IF impls # None
            THEN Output([item_enum EXCEPT !.variants = r.variants], impls[1])
            ELSE Output(input, <<>>)

backerror_struct(item_struct, input) ==
    IF ~check_derive_thiserror(item_struct.attrs)
       \/ ~check_transparent_struct(item_struct.attrs)
    THEN Output(input, <<>>)
    ELSE LET r == enhance_fields(item_struct.variants[1], <<>>)
             impls == generate_from_impl(item_struct.ident, r.errors)
         IN IF impls # None
            THEN Output([item_struct EXCEPT !.variants = <<r.variant>>], impls[1])
            ELSE Output(input, <<>>)

\* #[proc_macro_attribute] pub fn backerror
backerror(input) ==
    CASE input.kind = "enum" -> backerror_enum(input, input)
      [] input.kind = "struct" -> backerror_struct(input, input)
      [] OTHER -> Output(input, <<>>)

(***************************************************************************)
(* The definitions of tests/example.rs, as written before the macro runs   *)
(***************************************************************************)
AttrFrom == Attr("from", <<>>)
DeriveDebugError == Attr("derive", <<MetaPath(<<"Debug">>), MetaPath(<<"Error">>)>>)
ContainerNames == <<"MyError1", "MyError2", "MyError3", "MyError4", "MyError5">>
Styles == {"transparent", "prefix", "opaque"}

\* #[error(transparent)] struct N(#[from] T);  enum N { #[error("N {0}")] V(#[from] T) }
\* and an enum whose message does not show its field: #[error("N")]
UserDef(name, style, from_ty) ==
    IF style = "transparent"
    THEN Item("struct", name,
              <<DeriveDebugError, Attr("error", <<MetaPath(<<"transparent">>)>>)>>,
              <<Variant(name, <<>>, "unnamed", <<Field(<<AttrFrom>>, from_ty)>>)>>)
    ELSE Item("enum", name, <<DeriveDebugError>>,
              <<Variant("V",
                        <<Attr("error",
                               <<MetaLit(IF style = "prefix" THEN <<name, " ", "{0}">>
                                         ELSE <<name>>)>>)>>,
                        "unnamed", <<Field(<<AttrFrom>>, from_ty)>>)>>)

(***************************************************************************)
(* Error values                                                            *)
(***************************************************************************)
\* an error of the host (std::io::Error, ...): message, debug text, cause
Raw(ty, msg, dbg, cause) ==
    [kind |-> "raw", ty |-> ty, msg |-> msg, dbg |-> dbg, cause |-> cause]

\* a value of a rewritten definition: its one field holds a LocatedError
Container(def, field) == [kind |-> "container", def |-> def, field |-> field]

\* std::any::type_name::<E>()
type_name(e) == IF e.kind = "raw" THEN e.ty ELSE <<e.def.ident>>

(***************************************************************************)
(* #[track_caller] and std::panic::Location::caller()                      *)
(***************************************************************************)
\* a function being executed: call_site is where its caller called it
Frame(func, track_caller, call_site) ==
    [func |-> func, track_caller |-> track_caller, call_site |-> call_site]

\* the location a call made at `here`, in the body of frame n, is attributed to
RECURSIVE Location_caller(_, _, _)
Location_caller(stack, n, here) ==
    IF n = 0 THEN here
    ELSE IF stack[n].track_caller
         THEN Location_caller(stack, n - 1, stack[n].call_site)
         ELSE here

GlueSite == "backerror-macros/src/lib.rs:113:21"     \* LocatedError::from(e) in the glue
WrapSite == "backerror/src/located_error.rs:155:23"  \* Location::caller() in from
Sites == {"tests/example.rs:28:9", "tests/example.rs:33:12"}

(***************************************************************************)
(* LocatedError                                                            *)
(***************************************************************************)
LocatedError(inner, location, backtrace) ==
    [kind |-> "located", inner |-> inner, location |-> location,
     backtrace |-> backtrace]

\* #[track_caller] on LocatedError::from
from_track_caller == TRUE

\* impl From<E> for LocatedError<E>: stack is the call stack below from()
LocatedError_from(e, stack, call_site, backtrace) ==
    LET st == Append(stack, Frame("LocatedError::from", from_track_caller, call_site))
    IN LocatedError(e, Location_caller(st, Len(st), WrapSite), backtrace)

\* the generated impl From<T> for Container: Container::from(LocatedError::from(e))
GeneratedFrom(impl, def, e, stack, call_site, backtrace) ==
    LET st == Append(stack, Frame("From::from", impl.track_caller, call_site))
    IN Container(def, LocatedError_from(e, st, GlueSite, backtrace))

PAT == <<";", " ", "Caused by", " ">>

RECURSIVE fmt_Display(_)

\* impl Display for LocatedError, with the new marker appended at the end
LocatedError_Display_append(self) ==
    fmt_Display(self.inner) \o PAT \o type_name(self.inner)
        \o <<"(", self.location, ")", ";">>

\* impl Display for LocatedError
LocatedError_Display(self) ==
    LET inner_msg == fmt_Display(self.inner)
        pos == find(inner_msg, PAT)
    IN IF pos # None
       THEN Slice(inner_msg, 0, pos[1])
              \o <<";", " ", "Caused by", " ">> \o type_name(self.inner)
              \o <<" ", "(", self.location, ")">>
              \o Slice(inner_msg, pos[1], Len(inner_msg))
       ELSE inner_msg
              \o <<";", " ", "Caused by", " ">> \o type_name(self.inner)
              \o <<"(", self.location, ")", ";">>

\* the text of a format string with {0} replaced
RECURSIVE Substitute(_, _)
Substitute(fmt, arg) ==
    IF fmt = <<>> THEN <<>>
    ELSE (IF Head(fmt) = "{0}" THEN arg ELSE <<Head(fmt)>>) \o Substitute(Tail(fmt), arg)

\* the #[error(...)] attribute of the one variant (or of the struct)
ErrorAttr(def) ==
    LET attrs == def.attrs \o def.variants[1].attrs
    IN attrs[CHOOSE a \in 1..Len(attrs) : attrs[a].path = "error"]

\* Display derived by thiserror
thiserror_Display(self) ==
    IF check_transparent_struct(self.def.attrs)
    THEN fmt_Display(self.field)
    ELSE Substitute(ErrorAttr(self.def).args[1].segs, fmt_Display(self.field))

fmt_Display(e) ==
    CASE e.kind = "raw" -> e.msg
      [] e.kind = "located" -> LocatedError_Display(e)
      [] e.kind = "container" -> thiserror_Display(e)

RECURSIVE source(_)

\* impl Error for LocatedError, returning the inner error as the source
LocatedError_source_inner(self) == Some(self.inner)

\* impl Error for LocatedError
LocatedError_source(self) == source(self.inner)

\* Error::source derived by thiserror: #[from] implies #[source]
thiserror_source(self) ==
    IF check_transparent_struct(self.def.attrs)
    THEN source(self.field)
    ELSE Some(self.field)

source(e) ==
    CASE e.kind = "raw" -> e.cause
      [] e.kind = "located" -> LocatedError_source(e)
      [] e.kind = "container" -> thiserror_source(e)

\* the loop of test_display: every error reached by following source()
RECURSIVE SourceChain(_)
SourceChain(e) ==
    LET s == source(e) IN IF s = None THEN <<>> ELSE <<s[1]>> \o SourceChain(s[1])

(***************************************************************************)
(* Propagation of one error through the boundaries of tests/example.rs     *)
(***************************************************************************)
NoItem == Item("none", "none", <<>>, <<>>)
NoOutput == Output(NoItem, <<>>)
NoBacktrace == [status |-> "Absent", symbols |-> <<>>]

\* the function that uses `?`: a plain fn, called from the test
UserStack == <<Frame("throw_error", FALSE, "tests/example.rs:41:27")>>

Hop(site, style, via) == [site |-> site, style |-> style, via |-> via]

\* `?` on a Result<_, T> in a fn returning Result<_, Container>:
\* the conversion the macro generated for the container wraps the error
Convert(site, style, bt) ==
    /\ pc = "run"
    /\ Len(hops) < MaxDepth
    /\ LET def == UserDef(ContainerNames[Len(hops) + 1], style, type_name(err))
           out == backerror(def)
       IN /\ \E i \in 1..Len(out.impls) :
                 /\ out.impls[i].from_ty = type_name(err)
                 /\ err' = GeneratedFrom(out.impls[i], out.item, err, UserStack, site, bt)
          /\ item' = def
          /\ expanded' = out
    /\ hops' = Append(hops, Hop(site, style, "generated"))
    /\ UNCHANGED <<pc, feature, windows, dump, trace>>

\* .map_err(|e| LocatedError::from(e))? : the wrapper is built in a closure of
\* the user's, and thiserror's From<LocatedError<T>> builds the container
WrapManually(site, style, bt) ==
    /\ pc = "run"
    /\ Len(hops) < MaxDepth
    /\ LET def == UserDef(ContainerNames[Len(hops) + 1], style, type_name(err))
           out == backerror(def)
           st == Append(UserStack, Frame("closure", FALSE, "core/src/result.rs:855:27"))
       IN /\ err' = Container(out.item, LocatedError_from(err, st, site, bt))
          /\ item' = def
          /\ expanded' = out
    /\ hops' = Append(hops, Hop(site, style, "manual"))
    /\ UNCHANGED <<pc, feature, windows, dump, trace>>

\* root failures: a plain message, one that ends like the start of a marker,
\* one that holds the text of a marker, one with a cause of its own
RootCause == Raw(<<"ParseIntError">>, <<"invalid digit">>, <<"ParseIntError">>, None)
DisplayRoots ==
    { Raw(<<"std::io::Error">>, <<"file not found">>, <<"Os">>, None),
      Raw(<<"std::io::Error">>, <<"denied", ";", " ">>, <<"Os">>, None),
      Raw(<<"std::io::Error">>, <<"x">> \o PAT \o <<"y">>, <<"Custom">>, None),
      Raw(<<"ConfigError">>, <<"bad config">>, <<"ConfigError">>, Some(RootCause)) }

InitDisplay ==
    /\ pc = "run"
    /\ item = NoItem
    /\ expanded = NoOutput
    /\ err \in DisplayRoots
    /\ hops = <<>>
    /\ feature = "none"
    /\ windows = FALSE
    /\ dump = NoBacktrace
    /\ trace = None

NextDisplay ==
    \E site \in Sites, style \in Styles :
        \/ Convert(site, style, NoBacktrace)
        \/ WrapManually(site, style, NoBacktrace)

Spec == InitDisplay /\ [][NextDisplay]_vars

(***************************************************************************)
(* What a run has built                                                    *)
(***************************************************************************)
\* the wrappers inside an error, outermost first
RECURSIVE Wrappers(_)
Wrappers(e) ==
    CASE e.kind = "raw" -> <<>>
      [] e.kind = "located" -> <<e>> \o Wrappers(e.inner)
      [] e.kind = "container" -> Wrappers(e.field)

\* the root failure inside an error
RECURSIVE Root(_)
Root(e) ==
    CASE e.kind = "raw" -> e
      [] e.kind = "located" -> Root(e.inner)
      [] e.kind = "container" -> Root(e.field)

\* the hop that built the i-th wrapper of Wrappers(err)
HopOf(i) == hops[Len(hops) + 1 - i]

(***************************************************************************)
(* Claims on the wrapper: capture site, Display, source                    *)
(***************************************************************************)
\* C1: the capture site stored in the wrapper that a generated conversion
\* function built is the call site that invoked the conversion function, and
\* never a location inside the generated function or inside
\* LocatedError::from.
C1_CaptureSiteIsCallSite ==
    \A i \in 1..Len(Wrappers(err)) :
        HopOf(i).via = "generated" =>
            /\ Wrappers(err)[i].location = HopOf(i).site
            /\ Wrappers(err)[i].location \notin {GlueSite, WrapSite}

\* two boundaries crossed through generated conversions, at different sites
C1_Witness ==
    /\ Len(hops) >= 2
    /\ \A i \in 1..Len(hops) : hops[i].via = "generated"
    /\ hops[1].site # hops[2].site
    /\ Len(Wrappers(err)) = Len(hops)

\* the marker of one hop, in the form "; Caused by <type-of-E> (<site>)"
HopMarker(w) == PAT \o type_name(w.inner) \o <<" ", "(", w.location, ")">>

\* C2: a wrapper whose inner message holds no chain marker displays exactly
\* "<inner message>; Caused by <type-of-E> (<site>)".
C2_DisplayWithoutMarker ==
    \A i \in 1..Len(Wrappers(err)) :
        LET w == Wrappers(err)[i]
            inner_msg == fmt_Display(w.inner)
        IN find(inner_msg, PAT) = None =>
               fmt_Display(w) = inner_msg \o HopMarker(w)

\* the sites of the hop markers of a text, in the order of the text
MarkerSites(text) == SelectSeq(text, LAMBDA t : t \in Sites)

\* the sites of the hops, innermost first
HopSites == [i \in 1..Len(hops) |-> hops[i].site]

\* the hops whose marker the outermost message shows: those made after the
\* last container whose message does not show its field
Visible ==
    LET hidden == {j \in 1..Len(hops) : hops[j].style = "opaque"}
    IN Len(hops) - (IF hidden = {} THEN 0
                    ELSE CHOOSE j \in hidden : \A k \in hidden : k <= j)

\* the new marker goes immediately before the first marker of the inner
\* message; the text before it and the text from it onward are unchanged
Spliced ==
    \A i \in 1..Len(Wrappers(err)) :
        LET w == Wrappers(err)[i]
            inner_msg == fmt_Display(w.inner)
            pos == find(inner_msg, PAT)
        IN pos # None =>
               fmt_Display(w) = Slice(inner_msg, 0, pos[1]) \o HopMarker(w)
                                  \o Slice(inner_msg, pos[1], Len(inner_msg))

\* C3 as stated: the new marker is spliced in before the existing one, and
\* the hop markers of the final string are in innermost-to-outermost order.
C3_InnermostFirst ==
    /\ Spliced
    /\ LET shown == MarkerSites(fmt_Display(err))
       IN shown = SubSeq(HopSites, Len(hops) - Len(shown) + 1, Len(hops))

\* C3, amended: the new marker is spliced in before the existing one, and the
\* hop markers of the final string are in outermost-to-innermost order (the
\* latest wrap first, the first wrap last).
C3_OutermostFirst ==
    /\ Spliced
    /\ MarkerSites(fmt_Display(err)) = SubSeq(Reverse(HopSites), 1, Visible)

\* three wraps at sites that differ, every container showing its field
C3_Witness ==
    /\ Len(hops) = 3
    /\ Visible = 3
    /\ hops[1].site # hops[3].site
    /\ find(fmt_Display(Wrappers(err)[1].inner), PAT) # None

\* the causes of a host error, by its cause links
RECURSIVE RawCauses(_)
RawCauses(r) == IF r.cause = None THEN <<>> ELSE <<r.cause[1]>> \o RawCauses(r.cause[1])

\* C4 as stated: traversal from the outermost container never visits a
\* wrapper, and the cause of a container A that holds B is the raw B.
C4_TraversalSeesRawErrors ==
    /\ \A i \in 1..Len(SourceChain(err)) : SourceChain(err)[i].kind # "located"
    /\ (err.kind = "container" /\ ~check_transparent_struct(err.def.attrs))
          => source(err) = Some(err.field.inner)

\* the wrappers held by the containers that are not transparent, outermost first
RECURSIVE HeldWrappers(_, _)
HeldWrappers(ws, i) ==
    IF i > Len(ws) THEN <<>>
    ELSE (IF HopOf(i).style # "transparent" THEN <<ws[i]>> ELSE <<>>)
           \o HeldWrappers(ws, i + 1)

\* C4, amended: a wrapper's cause() is exactly its inner error's cause(), so
\* traversal never visits the raw error a wrapper holds: from the outermost
\* container it visits the wrapper held by each container that is not
\* transparent, outermost first, and then the causes of the root failure.
C4_TraversalSeesHeldWrappers ==
    /\ \A i \in 1..Len(Wrappers(err)) :
          source(Wrappers(err)[i]) = source(Wrappers(err)[i].inner)
    /\ SourceChain(err) = HeldWrappers(Wrappers(err), 1) \o RawCauses(Root(err))

\* A and B enums, C transparent over a root failure without a cause:
\* A.cause() is the wrapper around B, whose cause is the wrapper around C,
\* whose cause is absent
C4_Witness ==
    /\ Len(hops) = 3
    /\ hops[1].style = "transparent"
    /\ hops[2].style # "transparent"
    /\ hops[3].style # "transparent"
    /\ Root(err).cause = None
    /\ SourceChain(err) = <<err.field, err.field.inner.field>>

(***************************************************************************)
(* The macro on the definitions a user can write                           *)
(***************************************************************************)
\* a field: plain, or #[from] a path type, or #[from] a type that is no path
FieldChoices ==
    { Field(<<>>, <<"String">>),
      Field(<<AttrFrom>>, <<"std::io::Error">>),
      Field(<<AttrFrom>>, <<"std::fmt::Error">>),
      Field(<<AttrFrom>>, <<"&", "ParseError">>) }

\* the variants with c fields; a unit variant counts as one
VariantsOfCost(c) ==
    (IF c = 1 THEN {Variant("V", <<>>, "unit", <<>>)} ELSE {})
    \cup { Variant("V", <<>>, shape, fs) :
             shape \in {"unnamed", "named"}, fs \in [1..c -> FieldChoices] }

\* the variant lists of at most `budget` fields in all
RECURSIVE VariantLists(_)
VariantLists(budget) ==
    {<<>>} \cup UNION { { <<v>> \o rest : v \in VariantsOfCost(c),
                                          rest \in VariantLists(budget - c) } :
                        c \in 1..budget }

DeriveChoices ==
    { <<MetaPath(<<"Debug">>), MetaPath(<<"Error">>)>>,
      <<MetaPath(<<"Debug">>), MetaPath(<<"thiserror", "Error">>)>>,
      <<MetaPath(<<"Debug">>), MetaPath(<<"other", "Error">>)>>,
      <<MetaPath(<<"Debug">>)>> }

ErrorAttrChoices ==
    { <<Attr("error", <<MetaPath(<<"transparent">>)>>)>>,
      <<Attr("error", <<MetaLit(<<"failed">>)>>)>>,
      <<>> }

MacroInputs ==
    { Item("enum", "E", <<Attr("derive", d)>>, vs) :
        d \in DeriveChoices, vs \in VariantLists(MaxFields) }
    \cup { Item("struct", "S", <<Attr("derive", d)>> \o e, <<v>>) :
             d \in DeriveChoices, e \in ErrorAttrChoices,
             v \in UNION { VariantsOfCost(c) : c \in 1..(MaxFields - 1) } }
    \cup { Item("fn", "f", <<Attr("derive", d)>>, <<>>) : d \in DeriveChoices }

\* the compiler hands the item under #[backerror] to the macro
Expand ==
    /\ pc = "input"
    /\ expanded' = backerror(item)
    /\ pc' = "expanded"
    /\ UNCHANGED <<item, err, hops, feature, windows, dump, trace>>

InitRewrite ==
    /\ pc = "input"
    /\ item \in MacroInputs
    /\ expanded = NoOutput
    /\ err = RootCause
    /\ hops = <<>>
    /\ feature = "none"
    /\ windows = FALSE
    /\ dump = NoBacktrace
    /\ trace = None

NextRewrite == Expand

SpecRewrite == InitRewrite /\ [][NextRewrite]_vars

\* all fields of a definition, with the shape of their variant
FieldsOf(it) ==
    UNION { { <<v, f>> : f \in 1..Len(it.variants[v].fields) } :
            v \in 1..Len(it.variants) }

IsFromField(it, vf) ==
    \E a \in 1..Len(it.variants[vf[1]].fields[vf[2]].attrs) :
        it.variants[vf[1]].fields[vf[2]].attrs[a].path = "from"

FieldTy(it, vf) == it.variants[vf[1]].fields[vf[2]].ty

\* the definition derives Error or thiserror::Error
UsesErrorDerive(it) ==
    \E a \in 1..Len(it.attrs) :
        /\ it.attrs[a].path = "derive"
        /\ \E m \in 1..Len(it.attrs[a].args) :
              it.attrs[a].args[m].segs \in {<<"Error">>, <<"thiserror", "Error">>}

\* the definition carries #[error(transparent)]
MarkedTransparent(it) ==
    \E a \in 1..Len(it.attrs) :
        it.attrs[a] = Attr("error", <<MetaPath(<<"transparent">>)>>)

\* C5: a definition with no field marked #[from], or without the error
\* derive, or a struct not marked transparent, or an item that is neither an
\* enum nor a struct, is emitted unmodified and no conversion is generated.
C5_NoOpOnUnrelated ==
    (/\ pc = "expanded"
     /\ \/ ~\E vf \in FieldsOf(item) : IsFromField(item, vf)
        \/ ~UsesErrorDerive(item)
        \/ item.kind = "struct" /\ ~MarkedTransparent(item)
        \/ item.kind \notin {"enum", "struct"})
    => expanded = [item |-> item, impls |-> <<>>]

\* an enum without the error derive whose tuple field is marked #[from]
C5_Witness ==
    /\ pc = "expanded"
    /\ item.kind = "enum"
    /\ ~UsesErrorDerive(item)
    /\ \E vf \in FieldsOf(item) :
          IsFromField(item, vf) /\ item.variants[vf[1]].shape = "unnamed"
    /\ expanded = [item |-> item, impls |-> <<>>]

MeetsPreconditions(it) ==
    /\ it.kind \in {"enum", "struct"}
    /\ UsesErrorDerive(it)
    /\ it.kind = "struct" => MarkedTransparent(it)
    /\ \E vf \in FieldsOf(it) : IsFromField(it, vf)

\* C6: for a definition that meets the preconditions, every #[from] field of
\* type T, whatever its shape, becomes LocatedError<T>, every other field
\* keeps its type, and exactly one conversion T -> Container is generated for
\* every distinct T met.
C6_EveryFromFieldWrapped ==
    (pc = "expanded" /\ MeetsPreconditions(item)) =>
        /\ Len(expanded.item.variants) = Len(item.variants)
        /\ \A vf \in FieldsOf(item) :
              FieldTy(expanded.item, vf) =
                  IF IsFromField(item, vf) THEN LocatedTy(FieldTy(item, vf))
                  ELSE FieldTy(item, vf)
        /\ \A vf \in FieldsOf(item) :
              IsFromField(item, vf) =>
                  Cardinality({i \in 1..Len(expanded.impls) :
                                 expanded.impls[i].from_ty = FieldTy(item, vf)}) = 1
        /\ \A i \in 1..Len(expanded.impls) :
              /\ expanded.impls[i].for_ty = item.ident
              /\ \E vf \in FieldsOf(item) :
                    IsFromField(item, vf) /\ FieldTy(item, vf) = expanded.impls[i].from_ty

(***************************************************************************)
(* std::backtrace::Backtrace and the text of its Debug output              *)
(***************************************************************************)
\* status: "Unsupported", "Disabled" or "Captured"; a symbol has an optional
\* name, file name and line number
Backtrace(status, symbols) == [status |-> status, symbols |-> symbols]
Symbol(name, filename, lineno) ==
    [name |-> name, filename |-> filename, lineno |-> lineno]

\* the elements of a list with a separator between them
RECURSIVE Join(_, _)
Join(ss, sep) ==
    IF ss = <<>> THEN <<>>
    ELSE IF Len(ss) = 1 THEN ss[1]
    ELSE ss[1] \o sep \o Join(Tail(ss), sep)

\* { fn: "name", file: "path", line: 85 }   (stacktrace.rs, the sample dump)
SymbolDebug(sym) ==
    <<"{ ", "fn: ">>
    \o (IF sym.name # None THEN <<"\"">> \o sym.name[1] \o <<"\"">> ELSE <<"<unknown>">>)
    \o (IF sym.filename # None
        THEN <<", ", "file: ", "\"">> \o sym.filename[1] \o <<"\"">> ELSE <<>>)
    \o (IF sym.lineno # None THEN <<", ", "line: ", ToString(sym.lineno[1])>> ELSE <<>>)
    \o <<" }">>

\* format!("{:?}", backtrace)
BacktraceDebug(bt) ==
    CASE bt.status = "Unsupported" -> <<"<unsupported>">>
      [] bt.status = "Disabled" -> <<"<disabled>">>
      [] OTHER -> <<"Backtrace ", "[">>
                  \o Join([i \in 1..Len(bt.symbols) |-> SymbolDebug(bt.symbols[i])], <<", ">>)
                  \o <<"]">>

(***************************************************************************)
(* json5::from_str::<StackTrace>                                           *)
(***************************************************************************)
Fail == [ok |-> FALSE]

\* a JSON5 escape on the first letter of a word of the model's paths: \t is
\* a tab, a letter that names no escape stands for itself
json5_escape(tok) == IF tok = "tests" THEN "\tests" ELSE tok

\* a string, from the token after its opening quote
RECURSIVE json5_string(_, _, _)
json5_string(t, i, acc) ==
    IF i > Len(t) THEN Fail
    ELSE IF t[i] = "\"" THEN [ok |-> TRUE, value |-> acc, next |-> i + 1]
    ELSE IF t[i] = "\\"
         THEN IF i + 1 > Len(t) THEN Fail
              ELSE json5_string(t, i + 2, Append(acc, json5_escape(t[i + 1])))
    ELSE json5_string(t, i + 1, Append(acc, t[i]))

\* a number token as u32
json5_u32(tok) ==
    IF \E n \in 0..MaxLine : ToString(n) = tok
    THEN Some(CHOOSE n \in 0..MaxLine : ToString(n) = tok)
    ELSE None

\* the members of one record, from the token after "{ " or ", "
RECURSIVE json5_members(_, _, _)
json5_members(t, i, rec) ==
    IF i + 1 > Len(t) THEN Fail
    ELSE LET key == t[i]
             val == IF t[i + 1] = "\"" THEN json5_string(t, i + 2, <<>>)
                    ELSE IF json5_u32(t[i + 1]) # None
                         THEN [ok |-> TRUE, value |-> json5_u32(t[i + 1])[1], next |-> i + 2]
                         ELSE Fail
             isString == t[i + 1] = "\""
         IN IF ~val.ok \/ val.next > Len(t) THEN Fail
            \* serde: fn and file are String, line is u32
            ELSE IF key \in {"fn: ", "file: "} /\ ~isString THEN Fail
            ELSE IF key = "line: " /\ isString THEN Fail
            ELSE LET rec2 == CASE key = "fn: " -> [rec EXCEPT !.func = Some(val.value)]
                               [] key = "file: " -> [rec EXCEPT !.file = Some(val.value)]
                               [] key = "line: " -> [rec EXCEPT !.line = Some(val.value)]
                               [] OTHER -> rec
                 IN IF t[val.next] = " }"
                    THEN [ok |-> TRUE, value |-> rec2, next |-> val.next + 1]
                    ELSE IF t[val.next] = ", "
                         THEN json5_members(t, val.next + 1, rec2)
                         ELSE Fail

\* StackTraceFrame: `fn` is required, file and line have #[serde(default)]
StackTraceFrame(func, file, line) == [func |-> func, file |-> file, line |-> line]

\* a frame deserialized without #[serde(default)]: file and line are required
deserialize_frame_strict(rec) ==
    IF rec.func = None \/ rec.file = None \/ rec.line = None THEN None
    ELSE Some(StackTraceFrame(rec.func[1], rec.file[1], rec.line[1]))

deserialize_frame(rec) ==
    IF rec.func = None THEN None
    ELSE Some(StackTraceFrame(rec.func[1],
                              IF rec.file = None THEN <<>> ELSE rec.file[1],
                              IF rec.line = None THEN 0 ELSE rec.line[1]))

\* the records of the list, from the token after "[" or ", "
RECURSIVE json5_records(_, _, _)
json5_records(t, i, acc) ==
    IF i > Len(t) \/ t[i] # "{ " THEN Fail
    ELSE LET m == json5_members(t, i + 1, [func |-> None, file |-> None, line |-> None])
         IN IF ~m.ok \/ m.next > Len(t) THEN Fail
            ELSE LET fr == deserialize_frame(m.value)
                 IN IF fr = None THEN Fail
                    ELSE IF t[m.next] = "]"
                         THEN [ok |-> TRUE, value |-> Append(acc, fr[1]), next |-> m.next + 1]
                         ELSE IF t[m.next] = ", "
                              THEN json5_records(t, m.next + 1, Append(acc, fr[1]))
                              ELSE Fail

\* json5::from_str::<StackTrace> on {"frames": <list>}: Err is None
from_str(msg) ==
    IF Len(msg) < 4 \/ msg[1] # "{" \/ msg[2] # "\"frames\": " \/ msg[3] # "[" THEN None
    ELSE LET r == IF msg[4] = "]" THEN [ok |-> TRUE, value |-> <<>>, next |-> 5]
                  ELSE json5_records(msg, 4, <<>>)
         IN IF r.ok /\ r.next = Len(msg) /\ msg[r.next] = "}"
            THEN Some([frames |-> r.value]) ELSE None

(***************************************************************************)
(* StackTrace                                                              *)
(***************************************************************************)
starts_with(s, prefix) == Len(s) >= Len(prefix) /\ Slice(s, 0, Len(prefix)) = prefix

src_pat ==
    IF windows
    THEN << <<"\\", "src", "\\">>, <<"\\", "tests", "\\">>,
            <<"\\", "bench", "\\">>, <<"\\", "examples", "\\">> >>
    ELSE << <<"/", "src", "/">>, <<"/", "tests", "/">>,
            <<"/", "bench", "/">>, <<"/", "examples", "/">> >>

\* the offset past the first separator of the path, not the nearest one
find_crate_name_offset_first(path, pat) ==
    LET src_index == rfind(path, pat)
    IN IF src_index # None
       THEN LET slash_index == find(Slice(path, 0, src_index[1]), <<"/">>)
            IN IF slash_index # None THEN Some(slash_index[1] + 1) ELSE Some(0)
       ELSE None

\* "/home/user/project/src/main.rs" => "project/src/main.rs"
find_crate_name_offset(path, pat) ==
    LET src_index == rfind(path, pat)
    IN IF src_index # None
       THEN LET slash_index == rfind(Slice(path, 0, src_index[1]), <<"/">>)
            IN IF slash_index # None THEN Some(slash_index[1] + 1) ELSE Some(0)
       ELSE None

\* 1. remove starting frames owned by Backtrace
RECURSIVE remove_leading(_)
remove_leading(frames) ==
    IF frames # <<>>
       /\ (\/ starts_with(frames[1].func, <<"std::backtrace">>)
           \/ starts_with(frames[1].func, <<"<backerror::">>))
    THEN remove_leading(Tail(frames))
    ELSE frames

\* the loop over src_pat: the largest offset found
RECURSIVE max_offset(_, _, _)
max_offset(file, p, max_index) ==
    IF p > Len(src_pat) THEN max_index
    ELSE LET index == find_crate_name_offset(file, src_pat[p])
         IN max_offset(file, p + 1,
                       IF index # None /\ index[1] > max_index THEN index[1] ELSE max_index)

\* 2. remove the leading prefix from file path
shorten(frame) ==
    LET max_index == max_offset(frame.file, 1, 0)
    IN IF max_index > 0
       THEN [frame EXCEPT !.file = Slice(frame.file, max_index, Len(frame.file))]
       ELSE frame

\* normalize stacktrace
nomalize(frames) ==
    LET kept == remove_leading(frames)
    IN [i \in 1..Len(kept) |-> shorten(kept[i])]

\* the deserialization step of StackTrace::parse (None when status is not Captured)
deserialize(bt) ==
    IF bt.status # "Captured" THEN None
    ELSE LET msg == BacktraceDebug(bt)
             offset == 1     \* "Backtrace ".len(): the label is one token
         IN from_str(<<"{", "\"frames\": ">> \o Slice(msg, offset, Len(msg)) \o <<"}">>)

\* a parse that yields an empty stack where the source yields None
parse_or_empty(bt) ==
    LET r == deserialize(bt)
    IN IF r = None THEN Some([frames |-> <<>>]) ELSE Some([frames |-> nomalize(r[1].frames)])

\* parse Backtrace's debug output
parse(bt) ==
    LET r == deserialize(bt)
    IN IF r = None THEN None ELSE Some([frames |-> nomalize(r[1].frames)])

(***************************************************************************)
(* Debug of the wrapper                                                    *)
(***************************************************************************)
RECURSIVE fmt_Debug(_)

\* "{:?}\n\tat ({}) by {}"
LocationOnly(self) ==
    fmt_Debug(self.inner) \o <<"\n", "\tat ", "(", self.location, ")", " by ">>
        \o type_name(self.inner)

\* the line of one frame
FrameLine(frame) ==
    IF frame.file = <<>> THEN <<"\tat ">> \o frame.func
    ELSE <<"\tat ">> \o frame.func \o <<" (">> \o frame.file
           \o <<":", ToString(frame.line), ")">>

\* the inner description without its chain markers
pure_desc(self) ==
    LET desc == fmt_Display(self.inner)
        pos == find(desc, PAT)
    IN IF pos # None THEN Slice(desc, 0, pos[1]) ELSE desc

\* the loop over the frames, writing every line
RECURSIVE frame_lines_all(_, _)
frame_lines_all(frames, inner_msg) ==
    IF frames = <<>> THEN <<>>
    ELSE <<FrameLine(Head(frames))>> \o frame_lines_all(Tail(frames), inner_msg)

\* the loop over the frames: the lines it writes
RECURSIVE frame_lines(_, _)
frame_lines(frames, inner_msg) ==
    IF frames = <<>> THEN <<>>
    ELSE (IF find(inner_msg, FrameLine(Head(frames))) # None THEN <<>>
          ELSE <<FrameLine(Head(frames))>>)
         \o frame_lines(Tail(frames), inner_msg)

CAUSED_BY_PAT == <<"\n", "Caused by: ">>

InnerMsg(self) == fmt_Debug(self.inner) \o <<" (", self.location, ")">>

fmt_stacktrace(self, st) ==
    LET inner_msg == InnerMsg(self)
        cause_index == find(inner_msg, CAUSED_BY_PAT)
        index == IF cause_index # None THEN cause_index[1] ELSE 0
        head == IF cause_index # None THEN Slice(inner_msg, 0, cause_index[1] + 1)
                ELSE inner_msg \o <<"\n">>
        lines == frame_lines(st.frames, inner_msg)
    IN head
       \o <<"Caused by: ">> \o type_name(self.inner) \o <<": ">> \o pure_desc(self) \o <<"\n">>
       \o Concat([i \in 1..Len(lines) |-> lines[i] \o <<"\n">>])
       \o (IF index > 0 THEN Slice(inner_msg, index + 1, Len(inner_msg)) ELSE <<>>)

\* what Debug has of the stack: None without the features, else parse(&self.backtrace)
parsed_stack(self) == IF feature = "none" THEN None ELSE parse(self.backtrace)

\* impl Debug for LocatedError
LocatedError_Debug(self) ==
    LET st == parsed_stack(self)
    IN IF st # None THEN fmt_stacktrace(self, st[1]) ELSE LocationOnly(self)

\* #[derive(Debug)] on a tuple struct or tuple variant
derive_Debug(self) ==
    <<self.def.variants[1].name, "(">> \o fmt_Debug(self.field) \o <<")">>

fmt_Debug(e) ==
    CASE e.kind = "raw" -> e.dbg
      [] e.kind = "located" -> LocatedError_Debug(e)
      [] e.kind = "container" -> derive_Debug(e)

(***************************************************************************)
(* StackTrace::parse on the backtraces the runtime can hand over           *)
(***************************************************************************)
FnStd == <<"std::backtrace", "::Backtrace::create">>
FnWrap == <<"<backerror::", "located_error::LocatedError<E> as From<E>>::from">>
FnUser == <<"example::throw_error1">>
FnMain == <<"main">>

\* the file of a symbol, in the separators of the platform
NativeFile ==
    IF windows THEN <<"C:", "\\", "proj", "\\", "src", "\\", "main.rs">>
    ELSE <<"/", "home", "/", "proj", "/", "src", "/", "main.rs">>

SymbolPool ==
    { Symbol(n, f, l) : n \in {None, Some(FnStd), Some(FnUser)},
                        f \in {None, Some(NativeFile)},
                        l \in {None, Some(MaxLine)} }

ParseInputs ==
    { Backtrace("Captured", syms) :
        syms \in UNION { [1..n -> SymbolPool] : n \in 0..MaxSymbols } }
    \cup { Backtrace("Disabled", <<>>), Backtrace("Unsupported", <<>>) }

\* Debug of a wrapper calls StackTrace::parse(&self.backtrace)
Parse ==
    /\ pc = "captured"
    /\ trace' = parse(dump)
    /\ pc' = "parsed"
    /\ UNCHANGED <<item, expanded, err, hops, feature, windows, dump>>

InitParse ==
    /\ pc = "captured"
    /\ item = NoItem
    /\ expanded = NoOutput
    /\ err = RootCause
    /\ hops = <<>>
    /\ feature = "force_backtrace"
    /\ windows \in BOOLEAN
    /\ dump \in ParseInputs
    /\ trace = None

NextParse == Parse

SpecParse == InitParse /\ [][NextParse]_vars

\* the symbol is a frame of the capture facility or of the wrapper's from()
IsInternal(sym) ==
    sym.name # None /\ sym.name[1][1] \in {"std::backtrace", "<backerror::"}

\* the number of leading internal symbols
LeadingInternal(syms) ==
    LET stops == {k \in 1..Len(syms) : ~IsInternal(syms[k])}
    IN IF stops = {} THEN Len(syms)
       ELSE (CHOOSE k \in stops : \A j \in stops : k <= j) - 1

WellFormed(bt) ==
    /\ bt.status = "Captured"
    /\ \A i \in 1..Len(bt.symbols) : bt.symbols[i].name # None

\* the frame of record sym: its function, "" for no file, 0 for no line
MatchesRecord(frame, sym) ==
    /\ frame.func = sym.name[1]
    /\ (sym.filename = None) <=> (frame.file = <<>>)
    /\ frame.line = IF sym.lineno = None THEN 0 ELSE sym.lineno[1]

WithFn(syms) == SelectSeq(syms, LAMBDA sym : sym.name # None)

\* C11: a record missing `fn` is dropped silently: for every dump whose outer
\* label and brackets are present, the records that have `fn` still yield
\* their frames in order (after the leading internal ones), the records
\* without `fn` are omitted, and the result is "no parse" only if no record
\* has `fn`.
C11_MissingFnDropped ==
    (pc = "parsed" /\ dump.status = "Captured" /\ WithFn(dump.symbols) # <<>>) =>
        LET recs == WithFn(dump.symbols)
            k == LeadingInternal(recs)
        IN /\ trace # None
           /\ Len(trace[1].frames) = Len(recs) - k
           /\ \A i \in 1..(Len(recs) - k) :
                 MatchesRecord(trace[1].frames[i], recs[k + i])

(***************************************************************************)
(* StackTrace::nomalize on frame lists                                     *)
(***************************************************************************)
PathNames == {"src", "tests", "a"}
Separators == {"/", "\\"}

\* names[1] sep names[2] sep ..., after a leading "/" when absolute
RECURSIVE PathTail(_, _, _)
PathTail(names, seps, i) ==
    IF i > Len(names) THEN <<>>
    ELSE <<seps[i - 1], names[i]>> \o PathTail(names, seps, i + 1)

MkPath(absolute, names, seps) ==
    (IF absolute THEN <<"/">> ELSE <<>>) \o <<names[1]>> \o PathTail(names, seps, 2)

Paths ==
    UNION { { MkPath(abs, names, seps) :
                abs \in BOOLEAN, names \in [1..k -> PathNames],
                seps \in [1..(k - 1) -> Separators] } : k \in 1..MaxParts }

NormalizeInputs ==
    { <<StackTraceFrame(FnUser, p, MaxLine)>> : p \in Paths }
    \cup UNION { { [i \in 1..n |-> StackTraceFrame(fs[i], <<"/", "a", "/", "src", "/", "a">>, 0)] :
                     fs \in [1..n -> {FnStd, FnWrap, FnMain}] } : n \in 0..MaxSymbols }

\* stacktrace.nomalize()
Normalize ==
    /\ pc = "frames"
    /\ trace' = Some([frames |-> nomalize(trace[1].frames)])
    /\ pc' = "normalized"
    /\ UNCHANGED <<item, expanded, err, hops, feature, windows, dump>>

InitNormalize ==
    /\ pc = "frames"
    /\ item = NoItem
    /\ expanded = NoOutput
    /\ err = RootCause
    /\ hops = <<>>
    /\ feature = "force_backtrace"
    /\ windows \in BOOLEAN
    /\ \E fs \in NormalizeInputs :
          /\ dump = [status |-> "Frames", symbols |-> fs]
          /\ trace = Some([frames |-> fs])

NextNormalize == Normalize

SpecNormalize == InitNormalize /\ [][NextNormalize]_vars

\* C9: normalization is idempotent: normalizing a normalized frame list
\* changes nothing, whatever the markers and separators of the paths.
C9_NormalizeIdempotent ==
    pc = "normalized" => nomalize(trace[1].frames) = trace[1].frames

\* a path with two source-root markers, shortened at the later one
C9_Witness ==
    /\ pc = "normalized"
    /\ ~windows
    /\ dump.symbols = <<StackTraceFrame(FnUser, <<"/", "a", "/", "src", "/", "tests", "/", "a">>, MaxLine)>>
    /\ trace[1].frames[1].file = <<"src", "/", "tests", "/", "a">>

(***************************************************************************)
(* Debug of an error that crossed boundaries with stack capture            *)
(***************************************************************************)
SymUser == Symbol(Some(FnUser), Some(<<"/", "home", "/", "proj", "/", "src", "/", "main.rs">>), Some(MaxLine))
SymMain == Symbol(Some(FnMain), None, None)

\* what Backtrace::capture() / force_capture() can return at a wrap
DebugCaptures ==
    { Backtrace("Captured", <<Symbol(Some(FnStd), None, None), SymUser, SymMain>>),
      Backtrace("Captured", <<SymUser, SymUser, SymMain>>),
      Backtrace("Captured", <<Symbol(None, None, None), SymMain>>),
      Backtrace("Captured", <<>>),
      Backtrace("Disabled", <<>>),
      Backtrace("Unsupported", <<>>) }

\* capture() is Disabled unless the environment enables it; force_capture() is not
Captures(f) ==
    CASE f = "none" -> {NoBacktrace}
      [] f = "backtrace" -> DebugCaptures
      [] f = "force_backtrace" -> {b \in DebugCaptures : b.status # "Disabled"}

\* root failures whose debug text is plain, holds the delimiter in the middle
\* or at its start, or holds the line of a frame
DebugRoots ==
    { Raw(<<"std::io::Error">>, <<"file not found">>, <<"Os { code: 2 }">>, None),
      Raw(<<"std::io::Error">>, <<"file not found">>,
          <<"Custom", "\n", "Caused by: ", "inner">>, None),
      Raw(<<"std::io::Error">>, <<"file not found">>,
          <<"\n", "Caused by: ", "inner">>, None),
      Raw(<<"std::io::Error">>, <<"file not found">>,
          <<"Boom", "\n", "\tat ", "main">>, None) }

InitDebug ==
    /\ pc = "run"
    /\ item = NoItem
    /\ expanded = NoOutput
    /\ err \in DebugRoots
    /\ hops = <<>>
    /\ feature \in {"none", "backtrace", "force_backtrace"}
    /\ windows = FALSE
    /\ dump = NoBacktrace
    /\ trace = None

NextDebug ==
    \E site \in Sites, bt \in Captures(feature) : Convert(site, "prefix", bt)

SpecDebug == InitDebug /\ [][NextDebug]_vars

\* no parsed stack: capture is compiled out or disabled, the platform reports
\* no captured stack, or the dump holds a record json5 cannot read
NoParsedStack(w) ==
    \/ feature = "none"
    \/ w.backtrace.status # "Captured"
    \/ \E i \in 1..Len(w.backtrace.symbols) : w.backtrace.symbols[i].name = None

\* C7: whenever no parsed stack is available for a wrapper, Debug is exactly
\* "<inner debug>\n\tat (<site>) by <type-of-E>".
C7_LocationOnlyWithoutStack ==
    \A i \in 1..Len(Wrappers(err)) :
        LET w == Wrappers(err)[i]
        IN NoParsedStack(w) =>
               fmt_Debug(w) = fmt_Debug(w.inner)
                                \o <<"\n", "\tat ", "(", w.location, ")", " by ">>
                                \o type_name(w.inner)

\* a captured stack that cannot be parsed, on the second boundary of a build
\* with stack capture, the first wrapper having a parsed stack
C7_Witness ==
    /\ feature # "none"
    /\ Len(hops) = 2
    /\ Wrappers(err)[1].backtrace.status = "Captured"
    /\ NoParsedStack(Wrappers(err)[1])
    /\ ~NoParsedStack(Wrappers(err)[2])

\* the number of places where pat occurs in s
Occurrences(s, pat) == Cardinality({i \in 0..Len(s) : StartsAt(s, pat, i)})

\* the frames of a wrapper with a parsed stack
FramesOf(w) == parse(w.backtrace)[1].frames

\* C8 as stated: when the inner text already holds the line of a captured
\* frame, the final text holds that line only once.
C8_LineOnlyOnce ==
    \A i \in 1..Len(Wrappers(err)) :
        LET w == Wrappers(err)[i]
        IN ~NoParsedStack(w) =>
               \A k \in 1..Len(FramesOf(w)) :
                   find(fmt_Debug(w.inner), FrameLine(FramesOf(w)[k])) # None =>
                       Occurrences(fmt_Debug(w), FrameLine(FramesOf(w)[k])) = 1

\* the frame lines a wrapper injects after its "Caused by:" line
InjectedLines(w) == frame_lines(FramesOf(w), InnerMsg(w))

\* C8, amended: when the inner text already holds the line of a captured
\* frame, the wrapper writes no line for that frame: none of the frame lines
\* it injects is that line. (The final text still holds the line as often as
\* the inner text did, which is more than once for a recursive frame that an
\* upstream wrapper printed twice.)
C8_LineNotWrittenAgain ==
    \A i \in 1..Len(Wrappers(err)) :
        LET w == Wrappers(err)[i]
        IN ~NoParsedStack(w) =>
               \A k \in 1..Len(FramesOf(w)) :
                   find(fmt_Debug(w.inner), FrameLine(FramesOf(w)[k])) # None =>
                       \A j \in 1..Len(InjectedLines(w)) :
                           InjectedLines(w)[j] # FrameLine(FramesOf(w)[k])

\* the outer wrapper shares a frame with the inner one, which printed it, and
\* has a frame of its own line to write
C8_Witness ==
    /\ Len(hops) = 2
    /\ ~NoParsedStack(Wrappers(err)[1])
    /\ ~NoParsedStack(Wrappers(err)[2])
    /\ \E k \in 1..Len(FramesOf(Wrappers(err)[1])) :
          /\ find(fmt_Debug(Wrappers(err)[1].inner),
                  FrameLine(FramesOf(Wrappers(err)[1])[k])) # None
          /\ find(Root(err).dbg, FrameLine(FramesOf(Wrappers(err)[1])[k])) = None
    /\ find(fmt_Debug(err), <<"\tat ", "example::throw_error1">>) # None

\* the "Caused by: <type-of-E>: <description>" line of a wrapper and the
\* frame lines after it, each ended by a newline
InjectedText(w) ==
    <<"Caused by: ">> \o type_name(w.inner) \o <<": ">> \o pure_desc(w) \o <<"\n">>
    \o Concat([j \in 1..Len(InjectedLines(w)) |-> InjectedLines(w)[j] \o <<"\n">>])

\* C12: Debug with a captured stack loses none of the inner text, wherever
\* the delimiter occurs in it, its very start included: with the delimiter
\* found, the output is the inner text up to the delimiter's newline, the
\* injected lines, then the inner text from there on; with no delimiter, the
\* whole inner text, a newline and the injected lines.
C12_NoInnerTextLost ==
    \A i \in 1..Len(Wrappers(err)) :
        LET w == Wrappers(err)[i]
            inner_msg == InnerMsg(w)
            at == find(inner_msg, CAUSED_BY_PAT)
        IN ~NoParsedStack(w) =>
               fmt_Debug(w) =
                   IF at # None
                   THEN Slice(inner_msg, 0, at[1] + 1) \o InjectedText(w)
                          \o Slice(inner_msg, at[1] + 1, Len(inner_msg))
                   ELSE inner_msg \o <<"\n">> \o InjectedText(w)

\* C12 where the delimiter is not at the very start of the inner text
C12_NoInnerTextLostPastStart ==
    \A i \in 1..Len(Wrappers(err)) :
        LET w == Wrappers(err)[i]
            inner_msg == InnerMsg(w)
            at == find(inner_msg, CAUSED_BY_PAT)
        IN (~NoParsedStack(w) /\ at # Some(0)) =>
               fmt_Debug(w) =
                   IF at # None
                   THEN Slice(inner_msg, 0, at[1] + 1) \o InjectedText(w)
                          \o Slice(inner_msg, at[1] + 1, Len(inner_msg))
                   ELSE inner_msg \o <<"\n">> \o InjectedText(w)

====
